---- MODULE Spec2Model ----
(***************************************************************************)
(* Tic-Tac-Toe against a minimax opponent: the session loop (main.py), the *)
(* round (TicTacToeGame.play_round), the move selector and the search      *)
(* (tic_tac_toe.py), the board rules (utils/utils.py) and the statistics   *)
(* (game_stats.py, config/game_configuration.py).                          *)
(*                                                                         *)
(* Four specifications share the variables:                                *)
(*   Spec      the program as it runs: main() configuring and playing      *)
(*             rounds on console input;                                    *)
(*   UnitSpec  one method of a TicTacToeGame called on a board drawn from  *)
(*             the positions of legal play (the positions the testable     *)
(*             properties of the design are stated on);                    *)
(*   StatsSpec save_stats and load_stats called on a stats file in any of  *)
(*             its states;                                                 *)
(*   SearchSpec one scoring pass (_score_moves) run with its lru_cache, as *)
(*             the code runs it, on a position of legal play.              *)
(*                                                                         *)
(* A RecursionError of the search is an outcome of the environment (the    *)
(* interpreter's call-depth limit): every scoring pass may fail before its *)
(* first placement (while minimax is being defined) or in the first call   *)
(* of minimax that is deeper than the stack allows; the depth the stack    *)
(* allows is chosen anew for every pass. The call stack is taken to run    *)
(* out inside _score_moves only.                                           *)
(*                                                                         *)
(* A failed write of the stats file (OSError) is an outcome of the         *)
(* environment too: every save_stats may fail.                             *)
(*                                                                         *)
(* A KeyboardInterrupt inside input() is turned into QuitGame by the       *)
(* prompts; one raised anywhere else is an outcome of the environment as   *)
(* well: it may be raised between any two instructions. Every action of    *)
(* Spec has, next to the outcome of the handler that runs to its end, the  *)
(* outcomes of a KeyboardInterrupt raised at each point of the handler at  *)
(* which the variables differ.                                             *)
(***************************************************************************)
EXTENDS Integers, FiniteSets, Sequences, TLC

VARIABLES
    pc,                 \* where the program is: "intro", "configure", "round", "play_again", "exited" (main returned), "aborted" (an exception left main); "unit", "returned" in UnitSpec; "unit", "saved", "returned" in StatsSpec
    board,              \* TicTacToeGame.board: 0..8 -> {" ", "X", "O"}
    human_symbol,       \* TicTacToeGame.human_symbol
    system_symbol,      \* TicTacToeGame.system_symbol
    human_starts,       \* TicTacToeGame.human_starts
    system_difficulty,  \* TicTacToeGame.system_difficulty
    current_player,     \* play_round's local current_player
    stats,              \* main's GameStats object
    saved,              \* the stats file
    save_failed,        \* the last save_stats printed 'Failed to save stats'
    loaded,             \* the counters load_stats returned at startup
    rounds,             \* rounds of this session that returned an outcome
    outcome,            \* what the last play_round returned, or "none"
    raised,             \* the exception that ended the last round or call, or "none"
    human_plies,        \* the human moves of the current round: [board before, move]
    last_input,         \* the console line the program read last
    only_moves,         \* every line read in the current round was an accepted move
    call,               \* UnitSpec: the method called
    board_before,       \* UnitSpec: the board the method was called on
    result,             \* UnitSpec: <<value>> the call returned, or NoResult
    scored,             \* UnitSpec: the mapping the call's _score_moves returned, or NoScores
    cache_hits,         \* SearchSpec: the calls of minimax the lru_cache answered
    hint                \* UnitSpec: what provide_hint printed

vars == <<pc, board, human_symbol, system_symbol, human_starts, system_difficulty,
          current_player, stats, saved, save_failed, loaded, rounds, outcome, raised,
          human_plies, last_input, only_moves, call,
          board_before, result, scored, cache_hits, hint>>

-----------------------------------------------------------------------------
(* Bounds of the model. *)

\* UnitSpec draws boards with at most this many empty cells.
MaxEmptyCells == 5

\* Spec stops counting after this many rounds that returned an outcome.
MaxRounds == 2

\* StatsSpec draws the counters to save from 0..MaxCounter.
MaxCounter == 1

\* SearchSpec draws boards with at most this many empty cells.
MaxSearchEmptyCells == 4

-----------------------------------------------------------------------------
(* Board rules: utils/utils.py *)

EMPTY == " "

Cells == 0..8

Symbols == {"X", "O"}

EASY == "easy"

MEDIUM == "medium"

DIFFICULT == "difficult"

SystemDifficulty == {EASY, MEDIUM, DIFFICULT}

WINNING_COMBINATIONS ==
    << <<0, 1, 2>>, <<3, 4, 5>>, <<6, 7, 8>>,
       <<0, 3, 6>>, <<1, 4, 7>>, <<2, 5, 8>>,
       <<0, 4, 8>>, <<2, 4, 6>> >>

check_winner_any(b, symbol) ==
    \E c \in DOMAIN WINNING_COMBINATIONS :
        \E i \in 1..3 : b[WINNING_COMBINATIONS[c][i]] = symbol

check_winner(b, symbol) ==
    \E c \in DOMAIN WINNING_COMBINATIONS :
        \A i \in 1..3 : b[WINNING_COMBINATIONS[c][i]] = symbol

is_board_full(b) == \A i \in Cells : b[i] # EMPTY

EmptyBoard == [i \in Cells |-> EMPTY]

get_available_moves(b) == {idx \in Cells : b[idx] = EMPTY}

Count(b, symbol) == Cardinality({i \in Cells : b[i] = symbol})

-----------------------------------------------------------------------------
(* Search engine: TicTacToeGame._score_moves and its closure minimax *)

Max(S) == CHOOSE m \in S : \A y \in S : y <= m

Min(S) == CHOOSE m \in S : \A y \in S : m <= y

RECURSIVE minimax(_, _, _, _, _)
minimax(board_state, current_symbol, depth, sys, hum) ==
    IF check_winner(board_state, sys) THEN 10 - depth
    ELSE IF check_winner(board_state, hum) THEN depth - 10
    ELSE IF is_board_full(board_state) THEN 0
    ELSE LET next_symbol == IF current_symbol = sys THEN hum ELSE sys
             children ==
                 {minimax([board_state EXCEPT ![idx] = current_symbol],
                          next_symbol, depth + 1, sys, hum) :
                      idx \in get_available_moves(board_state)}
         IN  IF current_symbol = sys THEN Max(children) ELSE Min(children)

\* The loop of lines 285-292 over the moves not yet scored, in ascending
\* cell order: place the system symbol, evaluate with the human to move at
\* depth 1, undo, record the score.
RECURSIVE ScoreLoop(_, _, _, _, _)
ScoreLoop(b, moves, scores, sys, hum) ==
    IF moves = {} THEN scores
    ELSE LET move == Min(moves)
             score == minimax([b EXCEPT ![move] = sys], hum, 1, sys, hum)
         IN  ScoreLoop(b, moves \ {move}, scores @@ (move :> score), sys, hum)

\* A scoring pass that gives every candidate the score 0.
score_moves_flat(b, sys, hum) == [move \in get_available_moves(b) |-> 0]

\* The mapping a scoring pass returns when no evaluation fails.
score_moves(b, sys, hum) == ScoreLoop(b, get_available_moves(b), <<>>, sys, hum)

\* The board a scoring pass leaves when the evaluation of candidate `move`
\* raises: the placement of line 287 is not undone (line 289 is skipped).
BoardAfterFailedPass(b, sys, move) == [b EXCEPT ![move] = sys]

\* The call stack bounds the depth of the calls of minimax whose body can
\* run: a call at a depth above max_depth raises RecursionError in its first
\* check_winner (line 251), unless the lru_cache answers it, and the cache
\* holds no call of that depth. The evaluation minimax(board_state,
\* current_symbol, depth) raises iff it makes a call deeper than max_depth.
RECURSIVE minimax_overflows(_, _, _, _, _, _)
minimax_overflows(board_state, current_symbol, depth, max_depth, sys, hum) ==
    IF depth > max_depth THEN TRUE
    ELSE IF check_winner(board_state, sys) THEN FALSE
    ELSE IF check_winner(board_state, hum) THEN FALSE
    ELSE IF is_board_full(board_state) THEN FALSE
    ELSE LET next_symbol == IF current_symbol = sys THEN hum ELSE sys
         IN  \E idx \in get_available_moves(board_state) :
                 minimax_overflows([board_state EXCEPT ![idx] = current_symbol],
                                   next_symbol, depth + 1, max_depth, sys, hum)

\* The loop of lines 285-292 under a stack that lets the bodies of depth
\* max_depth and less run: the candidate whose evaluation raises, the first
\* of `moves` in ascending order that overflows, as a set; {} when the pass
\* returns.
RECURSIVE first_overflow(_, _, _, _, _)
first_overflow(b, moves, max_depth, sys, hum) ==
    IF moves = {} THEN {}
    ELSE LET move == Min(moves)
         IN  IF minimax_overflows([b EXCEPT ![move] = sys], hum, 1, max_depth, sys, hum)
             THEN {move}
             ELSE first_overflow(b, moves \ {move}, max_depth, sys, hum)

\* The candidates on which a pass can fail, over the depths max_depth and
\* more the stack may allow: a deeper stack fails on a later candidate, or
\* on none; no call is deeper than the number of empty cells.
RECURSIVE failing_candidates(_, _, _, _, _)
failing_candidates(b, moves, max_depth, sys, hum) ==
    LET failing == first_overflow(b, moves, max_depth, sys, hum)
    IN  IF failing = {} \/ max_depth + 1 >= Cardinality(get_available_moves(b))
        THEN failing
        ELSE failing \cup failing_candidates(b, {m \in moves : \A f \in failing : m >= f},
                                              max_depth + 1, sys, hum)

-----------------------------------------------------------------------------
(* Move selector: TicTacToeGame.compute_system_move and the three tiers.   *)
(* A call is modelled by the set of its possible outcomes: the value it    *)
(* returns (or the exception it raises) and the board it leaves.           *)

NoResult == <<>>

NoException == "none"

NoScores == <<>>

Outcome(res, exc, b, fb, sc) ==
    [result |-> res, raised |-> exc, board |-> b, fallback |-> fb, scores |-> sc]

\* _score_moves: it returns the mapping and leaves the board as it was; or
\* RecursionError is raised before the first placement (the decoration of
\* minimax at line 243 already needs stack) with the board as it was; or
\* the evaluation of a candidate raises RecursionError.
ScoringPass(b, sys, hum) ==
    {[scores |-> score_moves(b, sys, hum), raised |-> NoException, board |-> b]}
    \cup {[scores |-> NoScores, raised |-> "RecursionError", board |-> b]}
    \cup {[scores |-> NoScores, raised |-> "RecursionError",
           board |-> BoardAfterFailedPass(b, sys, move)] :
              move \in failing_candidates(b, get_available_moves(b), 0, sys, hum)}

\* random.choice(moves): any element; IndexError on an empty list.
get_system_move_easy(b) ==
    IF get_available_moves(b) = {}
    THEN {Outcome(NoResult, "IndexError", b, FALSE, NoScores)}
    ELSE {Outcome(<<m>>, NoException, b, FALSE, NoScores) : m \in get_available_moves(b)}

\* sorted(scores.items(), key=score, reverse=True): by score descending; the
\* sort is stable, so equal scores keep the mapping's order (ascending cell).
ranked_moves(scores) ==
    LET Before(n, m) == scores[n] > scores[m] \/ (scores[n] = scores[m] /\ n < m)
        Position(m) == 1 + Cardinality({n \in DOMAIN scores : Before(n, m)})
    IN  [p \in 1..Cardinality(DOMAIN scores) |->
            CHOOSE m \in DOMAIN scores : Position(m) = p]

top_moves(scores) ==
    LET top_score == scores[ranked_moves(scores)[1]]
    IN  {move \in DOMAIN scores : scores[move] = top_score}

\* A medium tier that picks any scored move, as the easy tier would.
MediumChoicesAny(scores) == DOMAIN scores

\* The moves _get_system_move_medium can return on a non-empty mapping:
\* ranked_moves[1][0] when random.random() < 0.30, else any of top_moves.
MediumChoices(scores) ==
    (IF Len(ranked_moves(scores)) > 1 THEN {ranked_moves(scores)[2]} ELSE {})
    \cup top_moves(scores)

\* The moves _get_system_move_difficult can return on a non-empty mapping.
DifficultChoicesWorst(scores) ==
    {move \in DOMAIN scores : scores[move] = Min({scores[m] : m \in DOMAIN scores})}

DifficultChoices(scores) ==
    {move \in DOMAIN scores : scores[move] = Max({scores[m] : m \in DOMAIN scores})}

\* A tier on the result p of its scoring pass: the exception of the pass
\* propagates; an empty mapping goes to the easy tier; else one of `choices`.
TierOnPass(p, choices) ==
    IF p.raised # NoException
    THEN {Outcome(NoResult, p.raised, p.board, FALSE, NoScores)}
    ELSE IF DOMAIN p.scores = {} THEN get_system_move_easy(p.board)
    ELSE {Outcome(<<m>>, NoException, p.board, FALSE, p.scores) : m \in choices}

get_system_move_medium(b, sys, hum) ==
    UNION {TierOnPass(p, IF DOMAIN p.scores = {} THEN {} ELSE MediumChoices(p.scores)) :
              p \in ScoringPass(b, sys, hum)}

get_system_move_difficult(b, sys, hum) ==
    UNION {TierOnPass(p, IF DOMAIN p.scores = {} THEN {} ELSE DifficultChoices(p.scores)) :
              p \in ScoringPass(b, sys, hum)}

Tier(b, difficulty, sys, hum) ==
    IF difficulty = EASY THEN get_system_move_easy(b)
    ELSE IF difficulty = MEDIUM THEN get_system_move_medium(b, sys, hum)
    ELSE get_system_move_difficult(b, sys, hum)

\* compute_system_move: the tier's move; both handlers (RecursionError, and
\* any other Exception) return _get_system_move_easy() on the board as the
\* failed tier left it. An exception raised inside a handler propagates.
compute_system_move(b, difficulty, sys, hum) ==
    UNION {IF o.raised = NoException THEN {o}
           ELSE {[e EXCEPT !.fallback = TRUE] : e \in get_system_move_easy(o.board)} :
              o \in Tier(b, difficulty, sys, hum)}

-----------------------------------------------------------------------------
(* Hint: TicTacToeGame.provide_hint *)

HINT_UNAVAILABLE == "Hint unavailable right now (search depth exceeded)."

HINT_NO_MOVES == "No hint available (no remaining moves)."

HINT_WIN == "These move(s) set you up to win or force a win:"

HINT_DRAW == "These move(s) should secure at least a draw:"

\* The source writes the dash as U+2014.
HINT_LOSE == "No winning path - block wisely or hope for a mistake:"

NoHint == [message |-> "", moves |-> <<>>]

\* sorted(best_moves): ascending.
Sorted(S) ==
    [p \in 1..Cardinality(S) |->
        CHOOSE m \in S : Cardinality({n \in S : n < m}) = p - 1]

\* A hint that lists every scored move instead of the best ones.
HintOnPassListsAll(p) ==
    IF p.raised # NoException THEN [message |-> HINT_UNAVAILABLE, moves |-> <<>>]
    ELSE IF DOMAIN p.scores = {} THEN [message |-> HINT_NO_MOVES, moves |-> <<>>]
    ELSE LET best_score == Max({p.scores[m] : m \in DOMAIN p.scores})
         IN  [message |-> IF best_score > 0 THEN HINT_WIN
                          ELSE IF best_score = 0 THEN HINT_DRAW
                          ELSE HINT_LOSE,
              moves |-> Sorted(DOMAIN p.scores)]

HintOnPass(p) ==
    IF p.raised # NoException THEN [message |-> HINT_UNAVAILABLE, moves |-> <<>>]
    ELSE IF DOMAIN p.scores = {} THEN [message |-> HINT_NO_MOVES, moves |-> <<>>]
    ELSE LET best_score == Max({p.scores[m] : m \in DOMAIN p.scores})
             best_moves == {move \in DOMAIN p.scores : p.scores[move] = best_score}
         IN  [message |-> IF best_score > 0 THEN HINT_WIN
                          ELSE IF best_score = 0 THEN HINT_DRAW
                          ELSE HINT_LOSE,
              moves |-> Sorted(best_moves)]

\* provide_hint: RecursionError is caught; the board is as the pass left it.
provide_hint(b, sys, hum) ==
    {[hint |-> HintOnPass(p), board |-> p.board, scores |-> p.scores] :
        p \in ScoringPass(b, sys, hum)}


-----------------------------------------------------------------------------
(* Statistics: game_stats.py *)

GameStats(w, l, t) == [wins |-> w, losses |-> l, ties |-> t]

record_win(st) == [st EXCEPT !.wins = @ + 1]

record_loss(st) == [st EXCEPT !.losses = @ + 1]

record_tie_as_loss(st) == [st EXCEPT !.losses = @ + 1]

record_tie(st) == [st EXCEPT !.ties = @ + 1]

\* A JSON value of the stats file, as json.loads returns it: its type and
\* the integer that int() makes of it where int() accepts it.
\*   "absent"   the key is not in the object
\*   "int"      an integer n
\*   "float"    a finite number with a fraction; int() truncates it to n
\*   "bool"     true (n = 1) or false (n = 0)
\*   "numeral"  a string int() parses to n, such as "2"
\*   "text"     a string int() rejects (ValueError)
\*   "null"     None: int() raises TypeError
\*   "list"     an array or object: int() raises TypeError
\*   "inf"      a number such as 1e999, read as float inf: OverflowError
JV(t, n) == [t |-> t, n |-> n]

JsonValues ==
    {JV("absent", 0), JV("int", 0), JV("int", 2), JV("float", 2), JV("bool", 1),
     JV("numeral", 2), JV("text", 0), JV("null", 0), JV("list", 0), JV("inf", 0)}

\* int(value): the integer, or the exception raised.
to_int(v) ==
    CASE v.t \in {"int", "float", "bool", "numeral"} -> [raised |-> NoException, value |-> v.n]
      [] v.t = "text" -> [raised |-> "ValueError", value |-> 0]
      [] v.t = "inf" -> [raised |-> "OverflowError", value |-> 0]
      [] OTHER -> [raised |-> "TypeError", value |-> 0]

NoFields == [wins |-> JV("absent", 0), losses |-> JV("absent", 0), ties |-> JV("absent", 0)]

\* The stats file. kind: "missing"; "unreadable" (read_text raises OSError);
\* "invalid" (not JSON); "array" (valid JSON that is not an object); or
\* "object" with the values of the keys wins, losses, ties.
StatsFile(kind, fields) == [kind |-> kind, fields |-> fields]

NoFile == StatsFile("missing", NoFields)

\* GameStats.to_dict: the three counters as JSON integers.
to_dict(st) ==
    [wins |-> JV("int", st.wins), losses |-> JV("int", st.losses), ties |-> JV("int", st.ties)]

\* The file that holds json.dumps(stats.to_dict(), indent=2).
json_dumps(st) == StatsFile("object", to_dict(st))

\* What a write_text that raises OSError leaves: the file as it was when
\* open() raised (the path is a directory, its parent is missing, no
\* permission); an emptied or partly written file, which is not JSON, when
\* the write itself raised (no space left).
FailedWrite(file) == {file, StatsFile("invalid", NoFields)}

\* path.write_text(text) that returns: the file holds the text; a file
\* that cannot be read (write-only permission) takes the text and still
\* cannot be read.
write_text(file, text) == IF file.kind = "unreadable" THEN file ELSE text

\* A save that writes wins and losses under each other's key.
save_stats_swapped(st, file) ==
    {[file |-> write_text(file, StatsFile("object", [wins |-> JV("int", st.losses),
                                                  losses |-> JV("int", st.wins),
                                                  ties |-> JV("int", st.ties)])),
      failed |-> FALSE]}
    \cup {[file |-> f, failed |-> TRUE] : f \in FailedWrite(file)}

\* save_stats: path.write_text(json.dumps(...)); OSError is caught and
\* 'Failed to save stats' printed. The file after the call, and whether the
\* write failed.
save_stats(st, file) ==
    {[file |-> write_text(file, json_dumps(st)), failed |-> FALSE]}
    \cup {[file |-> f, failed |-> TRUE] : f \in FailedWrite(file)}

\* The files a session may find at startup: none, the file an earlier
\* session saved, and files on which load_stats raises (valid JSON that is
\* not an object, a null field, a number that reads as float inf).
StatsFiles ==
    {NoFile,
     json_dumps(GameStats(2, 1, 3)),
     StatsFile("array", NoFields),
     StatsFile("object", [NoFields EXCEPT !.wins = JV("null", 0)]),
     StatsFile("object", [NoFields EXCEPT !.ties = JV("inf", 0)])}

\* GameStats.from_dict: int(results.get(key, 0)) for wins, losses, ties in
\* this order; the first int() that raises ends the call.
from_dict(results) ==
    LET get(key) == IF results[key].t = "absent" THEN JV("int", 0) ELSE results[key]
        w == to_int(get("wins"))
        l == to_int(get("losses"))
        t == to_int(get("ties"))
    IN  IF w.raised # NoException THEN [raised |-> w.raised, stats |-> GameStats(0, 0, 0)]
        ELSE IF l.raised # NoException THEN [raised |-> l.raised, stats |-> GameStats(0, 0, 0)]
        ELSE IF t.raised # NoException THEN [raised |-> t.raised, stats |-> GameStats(0, 0, 0)]
        ELSE [raised |-> NoException, stats |-> GameStats(w.value, l.value, t.value)]

\* The try block of load_stats (lines 21-23), before its handler.
load_stats_unguarded(file) ==
    IF file.kind = "missing" THEN [raised |-> NoException, stats |-> GameStats(0, 0, 0)]
    ELSE IF file.kind = "unreadable" THEN [raised |-> "OSError", stats |-> GameStats(0, 0, 0)]
    ELSE IF file.kind = "invalid" THEN [raised |-> "JSONDecodeError", stats |-> GameStats(0, 0, 0)]
    ELSE IF file.kind = "array" THEN [raised |-> "AttributeError", stats |-> GameStats(0, 0, 0)]
    ELSE from_dict(file.fields)

\* load_stats: GameStats() when the file is missing; JSONDecodeError,
\* OSError and ValueError are caught and GameStats() returned; a JSON value
\* without .get raises AttributeError in from_dict, and TypeError and
\* OverflowError of int() are not caught either.
load_stats(file) ==
    LET r == load_stats_unguarded(file)
    IN  IF r.raised \in {"JSONDecodeError", "OSError", "ValueError"}
        THEN [raised |-> NoException, stats |-> GameStats(0, 0, 0)]
        ELSE r

-----------------------------------------------------------------------------
(* UnitSpec: a TicTacToeGame built on a position of legal play, and one    *)
(* of its methods called once.                                             *)

OtherSymbol(symbol) == IF symbol = "X" THEN "O" ELSE "X"

\* The positions of legal play in which no one has won: the first mover is
\* at most one symbol ahead.
PlayPosition(b, hum, sys, starts) ==
    /\ ~check_winner(b, hum)
    /\ ~check_winner(b, sys)
    /\ IF starts THEN Count(b, hum) - Count(b, sys) \in {0, 1}
                 ELSE Count(b, sys) - Count(b, hum) \in {0, 1}

SystemToMove(b, hum, sys, starts) ==
    /\ ~is_board_full(b)
    /\ Count(b, hum) = Count(b, sys) + (IF starts THEN 1 ELSE 0)

HumanToMove(b, hum, sys, starts) ==
    /\ ~is_board_full(b)
    /\ Count(b, sys) = Count(b, hum) + (IF starts THEN 0 ELSE 1)

UnitInit ==
    /\ board \in [Cells -> Symbols \cup {EMPTY}]
    /\ Cardinality(get_available_moves(board)) <= MaxEmptyCells
    /\ human_symbol \in Symbols
    /\ system_symbol = OtherSymbol(human_symbol)
    /\ human_starts \in BOOLEAN
    /\ PlayPosition(board, human_symbol, system_symbol, human_starts)
    /\ system_difficulty \in SystemDifficulty
    /\ current_player = IF SystemToMove(board, human_symbol, system_symbol, human_starts)
                        THEN "system" ELSE "human"
    /\ pc = "unit"
    /\ stats = GameStats(0, 0, 0)
    /\ saved = NoFile
    /\ save_failed = FALSE
    /\ loaded = GameStats(0, 0, 0)
    /\ rounds = 0
    /\ outcome = "none"
    /\ raised = NoException
    /\ human_plies = <<>>
    /\ last_input = ""
    /\ only_moves = TRUE
    /\ call = "none"
    /\ board_before = board
    /\ result = NoResult
    /\ scored = NoScores
    /\ cache_hits = 0
    /\ hint = NoHint

UnitFrame ==
    UNCHANGED <<human_symbol, system_symbol, human_starts, system_difficulty,
                current_player, stats, saved, save_failed, loaded, rounds, outcome,
                human_plies, last_input, only_moves, board_before, cache_hits>>

Return(name, o) ==
    /\ call' = name
    /\ result' = o.result
    /\ scored' = o.scores
    /\ raised' = o.raised
    /\ board' = o.board
    /\ pc' = "returned"
    /\ hint' = hint
    /\ UnitFrame

\* game.compute_system_move(), the system to move.
CallComputeSystemMove ==
    /\ pc = "unit"
    /\ SystemToMove(board, human_symbol, system_symbol, human_starts)
    /\ \E o \in compute_system_move(board, system_difficulty, system_symbol, human_symbol) :
          Return(IF o.fallback THEN "compute_system_move/fallback" ELSE "compute_system_move", o)

\* The tier of the game's difficulty called directly:
\* game._get_system_move_easy(), _medium() or _difficult().
CallTier ==
    /\ pc = "unit"
    /\ SystemToMove(board, human_symbol, system_symbol, human_starts)
    /\ \E o \in Tier(board, system_difficulty, system_symbol, human_symbol) :
          Return("tier", o)

\* game.provide_hint(), the human to move or the board full.
CallProvideHint ==
    /\ pc = "unit"
    /\ \/ HumanToMove(board, human_symbol, system_symbol, human_starts)
       \/ is_board_full(board)
    /\ \E h \in provide_hint(board, system_symbol, human_symbol) :
          /\ call' = "provide_hint"
          /\ hint' = h.hint
          /\ scored' = h.scores
          /\ board' = h.board
          /\ pc' = "returned"
          /\ UNCHANGED <<result, raised>>
          /\ UnitFrame

UnitNext ==
    \/ CallComputeSystemMove
    \/ CallTier
    \/ CallProvideHint

UnitSpec == UnitInit /\ [][UnitNext]_vars


-----------------------------------------------------------------------------
(* SearchSpec: _score_moves as the code runs it: minimax wrapped in an     *)
(* lru_cache that lives for one pass, each candidate placed on the board   *)
(* and taken off again.                                                    *)

\* float('inf') of lines 262 and 274.
INF == 100

\* The lru_cache of one pass: the results by key, and the hits so far.
NoCache == [map |-> <<>>, hits |-> 0]

\* A cache key that leaves the board out.
memo_key_without_board(board_state, current_symbol, depth) ==
    <<EmptyBoard, current_symbol, depth>>

\* lru_cache keys a call by its arguments.
memo_key(board_state, current_symbol, depth) == <<board_state, current_symbol, depth>>

RECURSIVE memo_minimax(_, _, _, _, _, _, _)
RECURSIVE memo_children(_, _, _, _, _, _, _, _, _)

\* The loops of lines 264-270 and 275-281 over the cells from idx on:
\* [value |-> best_val, cache |-> the cache after the calls, raised]; the
\* first call that raises ends the loop.
memo_children(cache, board_state, idx, current_symbol, depth, best_val, max_depth, sys, hum) ==
    IF idx > 8 THEN [value |-> best_val, cache |-> cache, raised |-> NoException]
    ELSE IF board_state[idx] # EMPTY
    THEN memo_children(cache, board_state, idx + 1, current_symbol, depth, best_val,
                       max_depth, sys, hum)
    ELSE LET next_symbol == IF current_symbol = sys THEN hum ELSE sys
             r == memo_minimax(cache, [board_state EXCEPT ![idx] = current_symbol],
                               next_symbol, depth + 1, max_depth, sys, hum)
             best == IF current_symbol = sys
                     THEN (IF r.value > best_val THEN r.value ELSE best_val)
                     ELSE (IF r.value < best_val THEN r.value ELSE best_val)
         IN  IF r.raised # NoException THEN r
             ELSE memo_children(r.cache, board_state, idx + 1, current_symbol, depth, best,
                                max_depth, sys, hum)

\* minimax under @lru_cache (lines 243-283): a call whose key is in the
\* cache returns the stored result; any other call runs the body and its
\* result is stored, unless the body raises. The body of a call deeper than
\* max_depth raises RecursionError at line 251.
memo_minimax(cache, board_state, current_symbol, depth, max_depth, sys, hum) ==
    LET key == memo_key(board_state, current_symbol, depth)
    IN  IF key \in DOMAIN cache.map
        THEN [value |-> cache.map[key], cache |-> [cache EXCEPT !.hits = @ + 1],
              raised |-> NoException]
        ELSE IF depth > max_depth
        THEN [value |-> 0, cache |-> cache, raised |-> "RecursionError"]
        ELSE LET r == IF check_winner(board_state, sys)
                      THEN [value |-> 10 - depth, cache |-> cache, raised |-> NoException]
                      ELSE IF check_winner(board_state, hum)
                      THEN [value |-> depth - 10, cache |-> cache, raised |-> NoException]
                      ELSE IF is_board_full(board_state)
                      THEN [value |-> 0, cache |-> cache, raised |-> NoException]
                      ELSE memo_children(cache, board_state, 0, current_symbol, depth,
                                         IF current_symbol = sys THEN -INF ELSE INF,
                                         max_depth, sys, hum)
             IN  IF r.raised # NoException THEN r
                 ELSE [value |-> r.value,
                       cache |-> [r.cache EXCEPT !.map = @ @@ (key :> r.value)],
                       raised |-> NoException]

\* A pass that does not take the candidate off the board.
undo_skipped(b, move) == b

\* self.board[move] = ' ' (line 289)
undo(b, move) == [b EXCEPT ![move] = EMPTY]

\* The loop of lines 286-290 over `moves`, the rest of the list
\* get_available_moves() returned: [scores, board, cache, raised] at its
\* end, or when the evaluation of a candidate raises (the candidate is then
\* still on the board).
RECURSIVE memo_score_loop(_, _, _, _, _, _, _)
memo_score_loop(b, moves, scores, cache, max_depth, sys, hum) ==
    IF moves = {}
    THEN [scores |-> scores, board |-> b, cache |-> cache, raised |-> NoException]
    ELSE LET move == Min(moves)
             placed == [b EXCEPT ![move] = sys]
             r == memo_minimax(cache, placed, hum, 1, max_depth, sys, hum)
         IN  IF r.raised # NoException
             THEN [scores |-> NoScores, board |-> placed, cache |-> r.cache,
                   raised |-> r.raised]
             ELSE memo_score_loop(undo(placed, move), moves \ {move},
                                  scores @@ (move :> r.value), r.cache, max_depth, sys, hum)

\* _score_moves: RecursionError is raised before the first placement with
\* the board as it was and no call of minimax made; or the loop runs under a
\* stack that lets the bodies of depth max_depth and less run: no call is
\* deeper than the number of empty cells, so the pass returns under that
\* depth, and under a lower one the evaluation of a candidate may raise.
memo_score_moves(b, sys, hum) ==
    {[scores |-> NoScores, raised |-> "RecursionError", board |-> b, hits |-> 0]}
    \cup {LET r == memo_score_loop(b, get_available_moves(b), <<>>, NoCache,
                                    max_depth, sys, hum)
          IN  [scores |-> r.scores, raised |-> r.raised, board |-> r.board,
               hits |-> r.cache.hits] :
             max_depth \in 0..Cardinality(get_available_moves(b))}

SearchInit ==
    /\ board \in [Cells -> Symbols \cup {EMPTY}]
    /\ Cardinality(get_available_moves(board)) <= MaxSearchEmptyCells
    /\ human_symbol \in Symbols
    /\ system_symbol = OtherSymbol(human_symbol)
    /\ human_starts \in BOOLEAN
    /\ PlayPosition(board, human_symbol, system_symbol, human_starts)
    /\ system_difficulty = DIFFICULT
    /\ current_player = IF SystemToMove(board, human_symbol, system_symbol, human_starts)
                        THEN "system" ELSE "human"
    /\ pc = "unit"
    /\ stats = GameStats(0, 0, 0)
    /\ saved = NoFile
    /\ save_failed = FALSE
    /\ loaded = GameStats(0, 0, 0)
    /\ rounds = 0
    /\ outcome = "none"
    /\ raised = NoException
    /\ human_plies = <<>>
    /\ last_input = ""
    /\ only_moves = TRUE
    /\ call = "none"
    /\ board_before = board
    /\ result = NoResult
    /\ scored = NoScores
    /\ cache_hits = 0
    /\ hint = NoHint

\* game._score_moves()
CallScoreMoves ==
    /\ pc = "unit"
    /\ \E p \in memo_score_moves(board, system_symbol, human_symbol) :
          /\ scored' = p.scores
          /\ raised' = p.raised
          /\ board' = p.board
          /\ cache_hits' = p.hits
    /\ call' = "_score_moves"
    /\ pc' = "returned"
    /\ UNCHANGED <<human_symbol, system_symbol, human_starts, system_difficulty,
                    current_player, stats, saved, save_failed, loaded, rounds, outcome,
                    human_plies, last_input, only_moves, board_before, result, hint>>

SearchNext == CallScoreMoves

SearchSpec == SearchInit /\ [][SearchNext]_vars

-----------------------------------------------------------------------------
(* StatsSpec: load_stats, or save_stats and then load_stats, on one path.  *)

\* The states the stats file can be found in.
StatsFileStates ==
    {StatsFile(kind, NoFields) : kind \in {"missing", "unreadable", "invalid", "array"}}
    \cup {StatsFile("object", [wins |-> w, losses |-> l, ties |-> t]) :
              w \in JsonValues, l \in JsonValues, t \in JsonValues}

StatsInit ==
    /\ pc = "unit"
    /\ saved \in StatsFileStates
    /\ save_failed = FALSE
    /\ stats \in {GameStats(w, l, t) : w \in 0..MaxCounter, l \in 0..MaxCounter, t \in 0..MaxCounter}
    /\ loaded = GameStats(0, 0, 0)
    /\ rounds = 0
    /\ board = EmptyBoard
    /\ human_symbol = "X"
    /\ system_symbol = "O"
    /\ human_starts = TRUE
    /\ system_difficulty = MEDIUM
    /\ current_player = "human"
    /\ outcome = "none"
    /\ raised = NoException
    /\ human_plies = <<>>
    /\ last_input = ""
    /\ only_moves = TRUE
    /\ call = "none"
    /\ board_before = EmptyBoard
    /\ result = NoResult
    /\ scored = NoScores
    /\ cache_hits = 0
    /\ hint = NoHint

StatsFrame ==
    UNCHANGED <<board, human_symbol, system_symbol, human_starts, system_difficulty,
                current_player, stats, loaded, rounds, outcome, human_plies,
                last_input, only_moves, board_before, scored, cache_hits, hint>>

\* save_stats(stats, path)
CallSaveStats ==
    /\ pc = "unit"
    /\ \E w \in save_stats(stats, saved) :
          /\ saved' = w.file
          /\ save_failed' = w.failed
    /\ call' = "save_stats"
    /\ pc' = "saved"
    /\ UNCHANGED <<result, raised>>
    /\ StatsFrame

\* load_stats(path), on the file as found or as save_stats left it.
CallLoadStats ==
    /\ pc \in {"unit", "saved"}
    /\ LET r == load_stats(saved)
       IN  /\ raised' = r.raised
           /\ result' = IF r.raised = NoException THEN <<r.stats>> ELSE NoResult
    /\ call' = (IF pc = "saved" THEN "save_stats;load_stats" ELSE "load_stats")
    /\ pc' = "returned"
    /\ UNCHANGED <<saved, save_failed>>
    /\ StatsFrame

StatsNext ==
    \/ CallSaveStats
    \/ CallLoadStats

StatsSpec == StatsInit /\ [][StatsNext]_vars

-----------------------------------------------------------------------------
(* Console input of a round: TicTacToeGame.prompt_player_move *)

\* input() raising EOFError or KeyboardInterrupt.
EOF == "<EOF>"

\* The character U+00B2 (superscript two): str.isdigit() accepts it, int()
\* does not.
SUPERSCRIPT_TWO == "<U+00B2>"

AsciiDigits == <<"0", "1", "2", "3", "4", "5", "6", "7", "8", "9">>

ConsoleLines ==
    {AsciiDigits[i] : i \in DOMAIN AsciiDigits}
    \cup {" 4 ", "x", "H", "Q", SUPERSCRIPT_TWO}

\* raw.strip().lower()
strip_lower(line) ==
    CASE line = " 4 " -> "4"
      [] line = "H" -> "h"
      [] line = "Q" -> "q"
      [] OTHER -> line

isdigit(raw) ==
    \/ \E i \in DOMAIN AsciiDigits : AsciiDigits[i] = raw
    \/ raw = SUPERSCRIPT_TWO

\* int(raw) raises ValueError unless raw is a decimal numeral.
int_raises(raw) == ~\E i \in DOMAIN AsciiDigits : AsciiDigits[i] = raw

int(raw) == (CHOOSE i \in DOMAIN AsciiDigits : AsciiDigits[i] = raw) - 1

QuitWords == {"q", "quit", "exit"}

HintWords == {"h", "hint"}

\* What one pass of prompt_player_move's loop does with a line:
\* "quit", "hint", "reprompt", "error" (ValueError) or "move".
Classify(line, b) ==
    LET raw_input == strip_lower(line)
    IN  IF line = EOF \/ raw_input \in QuitWords THEN "quit"
        ELSE IF raw_input \in HintWords THEN "hint"
        ELSE IF ~isdigit(raw_input) THEN "reprompt"
        ELSE IF int_raises(raw_input) THEN "error"
        ELSE IF int(raw_input) \notin 0..8 THEN "reprompt"
        ELSE IF b[int(raw_input)] # EMPTY THEN "reprompt"
        ELSE "move"

-----------------------------------------------------------------------------
(* Spec: main() and TicTacToeGame.play_round on console input *)

\* What a call of provide_hint or compute_system_move does to the board,
\* and the exception it raises, without the value it computes: the scoring
\* pass leaves the board as it was (it returns, or fails before its first
\* placement), or fails on a candidate and leaves the system symbol there.
PassEffects(b, sys, hum) ==
    {b} \cup {BoardAfterFailedPass(b, sys, move) :
                 move \in failing_candidates(b, get_available_moves(b), 0, sys, hum)}

SelectorEffects(b, difficulty, sys, hum) ==
    IF difficulty = EASY
    THEN {[board |-> b,
           raised |-> IF get_available_moves(b) = {} THEN "IndexError" ELSE NoException]}
    ELSE {[board |-> b2,
           raised |-> IF get_available_moves(b2) = {} THEN "IndexError" ELSE NoException] :
              b2 \in PassEffects(b, sys, hum)}

\* The board at a KeyboardInterrupt raised while a scoring pass runs: as it
\* was, or with the candidate under evaluation on it (lines 287-289).
PassInterrupted(b, sys) ==
    {b} \cup {BoardAfterFailedPass(b, sys, move) : move \in get_available_moves(b)}

\* main after line 32: load_stats has returned and print_intro is to run;
\* or load_stats has raised, and the exception has left main, since line 32
\* is outside the try statement.
Init ==
    /\ saved \in StatsFiles
    /\ pc = (IF load_stats(saved).raised = NoException THEN "intro" ELSE "aborted")
    /\ save_failed = FALSE
    /\ stats = load_stats(saved).stats
    /\ loaded = stats
    /\ rounds = 0
    /\ board = EmptyBoard
    /\ human_symbol = "X"
    /\ system_symbol = "O"
    /\ human_starts = TRUE
    /\ system_difficulty = MEDIUM
    /\ current_player = "human"
    /\ outcome = "none"
    /\ raised = load_stats(saved).raised
    /\ human_plies = <<>>
    /\ last_input = ""
    /\ only_moves = TRUE
    /\ call = "none"
    /\ board_before = EmptyBoard
    /\ result = NoResult
    /\ scored = NoScores
    /\ cache_hits = 0
    /\ hint = NoHint

UnitVars == <<call, board_before, result, scored, cache_hits, hint>>

GameVars == <<human_symbol, system_symbol, human_starts, system_difficulty>>

StatsVars == <<stats, saved, save_failed, loaded, rounds>>

RoundVars == <<board, current_player, outcome, human_plies, last_input, only_moves>>

\* main, line 33: print_intro; the session loop is entered.
PrintIntro ==
    /\ pc = "intro"
    /\ pc' = "configure"
    /\ UNCHANGED <<StatsVars, GameVars, RoundVars, raised, UnitVars>>

\* main, lines 38-39: configure_game answers its three prompts and
\* play_round starts: the board is reset and the first mover set.
ConfigureGame(symbol, starts, difficulty) ==
    /\ pc = "configure"
    /\ rounds < MaxRounds
    /\ human_symbol' = symbol
    /\ system_symbol' = (IF symbol = "X" THEN "O" ELSE "X")
    /\ human_starts' = starts
    /\ system_difficulty' = difficulty
    /\ board' = EmptyBoard
    /\ current_player' = (IF starts THEN "human" ELSE "system")
    /\ outcome' = "none"
    /\ raised' = NoException
    /\ human_plies' = <<>>
    /\ last_input' = ""
    /\ only_moves' = TRUE
    /\ pc' = "round"
    /\ UNCHANGED <<StatsVars, UnitVars>>

\* save_stats(stats, STATS_FILE) of lines 59 and 79, on the counters st.
Save(st) ==
    \E w \in save_stats(st, saved) :
        /\ saved' = w.file
        /\ save_failed' = w.failed

\* save_stats of line 79 when a KeyboardInterrupt is raised in the finally
\* clause: before the call (the file is as it was), between the open and the
\* write of write_text (the file is emptied), or after the write or the
\* message of the handler (the call did what it does). Nothing is printed by
\* the first two.
InterruptedSave(st) ==
    \E w \in {[file |-> saved, failed |-> save_failed],
              [file |-> StatsFile("invalid", NoFields), failed |-> save_failed]}
             \cup save_stats(st, saved) :
        /\ saved' = w.file
        /\ save_failed' = w.failed

\* KeyboardInterrupt raised outside input() inside main's try statement,
\* the counters being st: no handler below main's catches it
\* (compute_system_move catches Exception only); main prints 'Keyboard
\* interrupt detected' (lines 75-76) and the finally clause saves the stats
\* (line 79) and main returns; or the interrupt is raised in the handler of
\* line 76 or in the finally clause, where nothing catches it, and it leaves
\* main.
Interrupted(st) ==
    /\ raised' = "KeyboardInterrupt"
    /\ stats' = st
    /\ \/ pc' = "exited" /\ Save(st)
       \/ pc' = "aborted" /\ InterruptedSave(st)
    /\ UNCHANGED loaded

\* A session loop that books the abandoned round as a loss.
QuitSessionRecordsLoss ==
    /\ raised' = "QuitGame"
    /\ stats' = record_loss(stats)
    /\ Save(stats')
    /\ pc' = "exited"
    /\ UNCHANGED <<loaded, rounds>>

\* QuitGame out of the session loop (lines 41-43, 68-70), then the finally
\* clause saves the stats (line 79); or the farewell or the finally clause
\* is interrupted.
QuitSession ==
    \/ /\ raised' = "QuitGame"
       /\ Save(stats)
       /\ pc' = "exited"
       /\ UNCHANGED <<stats, loaded, rounds>>
    \/ /\ Interrupted(stats)
       /\ UNCHANGED rounds

\* input() is interrupted at one of configure_game's prompts.
ConfigureQuit ==
    /\ pc = "configure"
    /\ last_input' = EOF
    /\ QuitSession
    /\ UNCHANGED <<board, GameVars, current_player, outcome, human_plies, only_moves,
                    UnitVars>>

\* main, lines 49-59: the outcome is recorded and the stats are saved; the
\* program then waits at the play-again prompt.
RecordOutcome(st, o) ==
    IF o = "human" THEN record_win(st)
    ELSE IF o = "system" THEN record_loss(st)
    ELSE record_tie(st)

\* play_round returns o (lines 72, 76); or a KeyboardInterrupt is raised
\* before the outcome is recorded, or after that and before the save of
\* line 59 has returned.
RoundReturns(o) ==
    /\ outcome' = o
    /\ rounds' = rounds + 1
    /\ \/ /\ stats' = RecordOutcome(stats, o)
          /\ Save(stats')
          /\ pc' = "play_again"
          /\ UNCHANGED <<loaded, raised>>
       \/ Interrupted(stats)
       \/ Interrupted(RecordOutcome(stats, o))

\* main, lines 45-47: any other exception ends the round; the loop goes on
\* with the next configuration.
RoundRaises(exc) ==
    /\ raised' = exc
    /\ pc' = "configure"
    /\ UNCHANGED <<StatsVars, outcome>>

\* One line read by prompt_player_move, and what play_round does with an
\* accepted move (lines 66-78); or a KeyboardInterrupt is raised on the way:
\* after the line is read, while the scoring pass of a hint runs, or after
\* the move is placed and before play_round returns or passes the turn.
HumanInput(line) ==
    /\ pc = "round"
    /\ current_player = "human"
    /\ last_input' = line
    /\ only_moves' = (only_moves /\ Classify(line, board) = "move")
    /\ UNCHANGED <<GameVars, UnitVars>>
    /\ LET kind == Classify(line, board)
           move == int(strip_lower(line))
           placed == [board EXCEPT ![move] = human_symbol]
       IN  \/ CASE kind = "quit" ->
                    /\ QuitSession
                    /\ UNCHANGED <<board, current_player, outcome, human_plies>>
               [] kind = "hint" ->
                    /\ board' \in PassEffects(board, system_symbol, human_symbol)
                    /\ UNCHANGED <<pc, current_player, outcome, raised, human_plies,
                                    StatsVars>>
               [] kind = "reprompt" ->
                    UNCHANGED <<pc, board, current_player, outcome, raised, human_plies,
                                StatsVars>>
               [] kind = "error" ->
                    /\ RoundRaises("ValueError")
                    /\ UNCHANGED <<board, current_player, human_plies>>
               [] kind = "move" ->
                    /\ board' = placed
                    /\ human_plies' = Append(human_plies, [board |-> board, move |-> move])
                    /\ IF check_winner(placed, human_symbol)
                       THEN RoundReturns("human") /\ UNCHANGED current_player
                       ELSE IF is_board_full(placed)
                       THEN RoundReturns("tie") /\ UNCHANGED current_player
                       ELSE /\ current_player' = "system"
                            /\ UNCHANGED <<pc, outcome, raised, StatsVars>>
           \/ /\ Interrupted(stats)
              /\ UNCHANGED <<rounds, current_player, outcome>>
              /\ \/ UNCHANGED <<board, human_plies>>
                 \/ /\ kind = "hint"
                    /\ board' \in PassInterrupted(board, system_symbol)
                    /\ UNCHANGED human_plies
                 \/ /\ kind = "move"
                    /\ board' = placed
                    /\ human_plies' = Append(human_plies, [board |-> board, move |-> move])

\* The system's turn (lines 79-93): compute_system_move returns a move, and
\* the message of line 82 reads self.ai_symbol, an attribute the class does
\* not have: AttributeError. Lines 84-93 are never reached. When the search
\* failed on the last empty cell the fallback raises IndexError instead. Or
\* a KeyboardInterrupt is raised on the way: while the scoring pass runs, or
\* in the handler of lines 45-47.
SystemTurn ==
    /\ pc = "round"
    /\ current_player = "system"
    /\ \/ \E e \in SelectorEffects(board, system_difficulty, system_symbol, human_symbol) :
             /\ board' = e.board
             /\ RoundRaises(IF e.raised = NoException THEN "AttributeError" ELSE e.raised)
       \/ /\ board' \in (IF system_difficulty = EASY THEN {board}
                         ELSE PassInterrupted(board, system_symbol))
          /\ Interrupted(stats)
          /\ UNCHANGED <<rounds, outcome>>
    /\ UNCHANGED <<GameVars, current_player, human_plies, last_input, only_moves,
                    UnitVars>>

\* prompt_play_again (lines 62-70); or a KeyboardInterrupt is raised after
\* the line is read.
PlayAgain(line) ==
    /\ pc = "play_again"
    /\ last_input' = line
    /\ \/ CASE line \in {"y", ""} ->
                 /\ pc' = "configure"
                 /\ UNCHANGED <<StatsVars, raised>>
            [] line = "n" ->
                 /\ Save(stats)
                 /\ pc' = "exited"
                 /\ UNCHANGED <<stats, loaded, rounds, raised>>
            [] line = EOF -> QuitSession
            [] OTHER -> UNCHANGED <<pc, StatsVars, raised>>
       \/ /\ Interrupted(stats)
          /\ UNCHANGED rounds
    /\ UNCHANGED <<board, GameVars, current_player, outcome, human_plies, only_moves,
                    UnitVars>>

\* KeyboardInterrupt raised outside input() while the program is at a
\* prompt or about to move for the system; in print_intro (line 33), before
\* the try statement, nothing catches it and nothing is saved.
KeyboardInterrupt ==
    /\ \/ /\ pc = "intro"
          /\ raised' = "KeyboardInterrupt"
          /\ pc' = "aborted"
          /\ UNCHANGED StatsVars
       \/ /\ pc \in {"configure", "round", "play_again"}
          /\ Interrupted(stats)
          /\ UNCHANGED rounds
    /\ UNCHANGED <<GameVars, RoundVars, UnitVars>>

Next ==
    \/ PrintIntro
    \/ \E symbol \in Symbols, starts \in BOOLEAN, difficulty \in SystemDifficulty :
          ConfigureGame(symbol, starts, difficulty)
    \/ ConfigureQuit
    \/ \E line \in ConsoleLines \cup {EOF} : HumanInput(line)
    \/ SystemTurn
    \/ \E line \in {"y", "", "n", "x", EOF} : PlayAgain(line)
    \/ KeyboardInterrupt

Spec == Init /\ [][Next]_vars


-----------------------------------------------------------------------------
(* Claims about the round and the session, checked under Spec *)

Outcomes == {"human", "system", "tie"}

\* The last round is over: play_round returned, or raised something other
\* than the human's quit; no KeyboardInterrupt has ended the session.
RoundOver ==
    /\ pc \in {"configure", "play_again", "exited"}
    /\ raised # "KeyboardInterrupt"
    /\ outcome # "none" \/ raised \notin {NoException, "QuitGame"}

\* C1: in a round played at DIFFICULT, whoever starts and whatever the human
\* enters, play_round never returns 'human'.
C1_DifficultRoundNeverReturnsHuman ==
    system_difficulty = DIFFICULT => outcome # "human"

\* A round at DIFFICULT in which the human moved and play_round returned.
C1_Witness ==
    /\ system_difficulty = DIFFICULT
    /\ pc = "play_again"
    /\ Len(human_plies) > 0
    /\ outcome \in Outcomes

\* C2: a round in which the human enters only legal moves and never quits
\* ends by returning one of 'human', 'system', 'tie': it does not end by an
\* exception.
C2_RoundEndsWithOutcome ==
    (RoundOver /\ only_moves) => (raised = NoException /\ outcome \in Outcomes)

\* C3: the system's turn writes the system symbol into one empty cell and
\* changes no other cell, and then the round is SYSTEM_WON if the system has
\* a winning line, else TIE if the board is full, else it is the human's
\* turn.
C3_SystemTurnPlacesOneSymbol ==
    [][(pc = "round" /\ current_player = "system" /\ raised' # "KeyboardInterrupt") =>
          \E m \in get_available_moves(board) :
              /\ board' = [board EXCEPT ![m] = system_symbol]
              /\ IF check_winner(board', system_symbol)
                 THEN outcome' = "system"
                 ELSE IF is_board_full(board')
                 THEN outcome' = "tie"
                 ELSE pc' = "round" /\ current_player' = "human"]_vars

\* C4: on the human's turn a line that is an index 0..8 of an empty cell
\* writes the human symbol into that cell only, and the round is then
\* HUMAN_WON, TIE or at the system's turn; any other line that is not a
\* command (hint, quit) leaves the board and the turn as they were and the
\* program prompts again.
C4_HumanTurn ==
    [][(pc = "round" /\ current_player = "human" /\ raised' # "KeyboardInterrupt") =>
          LET line == last_input'
              raw == strip_lower(line)
              index == {i \in 0..8 : AsciiDigits[i + 1] = raw /\ board[i] = EMPTY}
              command == line = EOF \/ raw \in QuitWords \cup HintWords
          IN  IF index # {}
              THEN \E m \in index :
                      /\ board' = [board EXCEPT ![m] = human_symbol]
                      /\ IF check_winner(board', human_symbol)
                         THEN outcome' = "human"
                         ELSE IF is_board_full(board')
                         THEN outcome' = "tie"
                         ELSE pc' = "round" /\ current_player' = "system"
              ELSE command \/
                   (board' = board /\ pc' = "round" /\ current_player' = "human")]_vars

\* The human's move was minimax-optimal: no other legal move had a lower
\* value for the system.
HumanMoveValue(b, m) ==
    minimax([b EXCEPT ![m] = human_symbol], system_symbol, 1, system_symbol, human_symbol)

HumanPlayedOptimally ==
    \A i \in DOMAIN human_plies :
        \A m \in get_available_moves(human_plies[i].board) :
            HumanMoveValue(human_plies[i].board, human_plies[i].move)
                <= HumanMoveValue(human_plies[i].board, m)

\* C5: a round from the empty board in which the system plays at DIFFICULT
\* and every human move is minimax-optimal ends in TIE, whoever starts.
C5_PerfectPlayEndsInTie ==
    (RoundOver /\ system_difficulty = DIFFICULT /\ only_moves /\ HumanPlayedOptimally)
        => outcome = "tie"

Total(st) == st.wins + st.losses + st.ties

C10_Counters ==
    /\ stats.wins >= loaded.wins /\ stats.losses >= loaded.losses
    /\ stats.ties >= loaded.ties
    /\ loaded.wins >= 0 /\ loaded.losses >= 0 /\ loaded.ties >= 0
    /\ Total(stats) = Total(loaded) + rounds

C10_RoundStep ==
    IF rounds' # rounds
    THEN /\ rounds' = rounds + 1
         /\ outcome' \in Outcomes
         /\ stats'.wins = stats.wins + (IF outcome' = "human" THEN 1 ELSE 0)
         /\ stats'.losses = stats.losses + (IF outcome' = "system" THEN 1 ELSE 0)
         /\ stats'.ties = stats.ties + (IF outcome' = "tie" THEN 1 ELSE 0)
         /\ pc' = "play_again"
    ELSE stats' = stats

\* C10, as claimed: a round that returns an outcome adds one to exactly the
\* counter of that outcome, and the stats are persisted before the
\* play-again prompt; the counters change at no other step, stay
\* non-negative, and their total grows by the number of rounds that returned.
C10_OneCounterPerRoundPersisted ==
    /\ [](C10_Counters /\ (pc = "play_again" => saved = json_dumps(stats)))
    /\ [][C10_RoundStep]_vars

\* C10, amended: as claimed, except that the stats are persisted before the
\* play-again prompt when the write of save_stats succeeds (a failed write
\* is reported and the round is counted all the same), and except for a
\* round that a KeyboardInterrupt raised outside input() cuts short between
\* its return and the play-again prompt.
C10_OneCounterPerRound ==
    /\ [](raised # "KeyboardInterrupt" =>
             /\ C10_Counters
             /\ (pc = "play_again" /\ ~save_failed) => saved = json_dumps(stats))
    /\ [][raised' # "KeyboardInterrupt" => C10_RoundStep]_vars

\* A round has returned, its counter is one higher and the file holds it.
C10_Witness ==
    /\ pc = "play_again"
    /\ rounds = 1
    /\ outcome = "tie"
    /\ stats.ties = loaded.ties + 1
    /\ ~save_failed
    /\ saved = json_dumps(stats)
    /\ load_stats(saved).stats = stats


-----------------------------------------------------------------------------
(* Claims about the move selector, checked under UnitSpec *)

\* A tier, or compute_system_move without its fallback, returned a move.
Selected(difficulty) ==
    /\ call \in {"tier", "compute_system_move"}
    /\ system_difficulty = difficulty
    /\ raised = NoException
    /\ result # NoResult

\* [X, X, ' ', O, O, ' ', ' ', ' ', ' ']
C6_Board ==
    [i \in Cells |-> IF i \in {0, 1} THEN "X" ELSE IF i \in {3, 4} THEN "O" ELSE EMPTY]

\* C6: on the board [X,X,' ',O,O,' ',' ',' ',' '] with the system playing O
\* and to move, index 5 has the strictly highest score and DIFFICULT
\* selection returns 5 and no other index.
C6_DifficultReturnsFive ==
    (Selected(DIFFICULT) /\ board_before = C6_Board /\ system_symbol = "O") =>
        LET scores == score_moves(board_before, system_symbol, human_symbol)
        IN  /\ result = <<5>>
            /\ scored = scores
            /\ \A m \in DOMAIN scores : m # 5 => scores[m] < scores[5]

C6_Witness ==
    /\ Selected(DIFFICULT)
    /\ board_before = C6_Board
    /\ system_symbol = "O"
    /\ result = <<5>>

\* The moves ahead of m in the ranking: a higher score, or the same score
\* and a lower cell index.
RankedAhead(scores, m) ==
    {n \in DOMAIN scores :
        \/ scores[n] > scores[m]
        \/ scores[n] = scores[m] /\ n < m}

IsTopScore(scores, m) == \A n \in DOMAIN scores : scores[n] <= scores[m]

\* C7, as claimed: MEDIUM selection returns the first or the second move of
\* the ranking (score descending, equal scores in ascending cell order).
C7_MediumReturnsFirstOrSecond ==
    Selected(MEDIUM) => Cardinality(RankedAhead(scored, result[1])) <= 1

\* C7, amended: MEDIUM selection returns the second move of the ranking or a
\* move whose score equals the top score, wherever that move stands in the
\* ranking.
C7_MediumReturnsSecondOrTopScore ==
    Selected(MEDIUM) =>
        /\ DOMAIN scored = get_available_moves(board_before)
        /\ \/ Cardinality(RankedAhead(scored, result[1])) = 1
           \/ IsTopScore(scored, result[1])

\* MEDIUM returned a move that is third or lower in the ranking, tied for
\* the top score.
C7_Witness ==
    /\ Selected(MEDIUM)
    /\ Cardinality(RankedAhead(scored, result[1])) >= 2
    /\ IsTopScore(scored, result[1])

\* compute_system_move has been called, with or without its fallback.
Computed == call \in {"compute_system_move", "compute_system_move/fallback"}

\* C8: at every difficulty, on every board with an empty cell,
\* compute_system_move returns one index 0..8 of a cell that is empty; on a
\* board with one empty cell it returns that cell.
C8_ComputeReturnsEmptyCell ==
    Computed =>
        /\ raised = NoException
        /\ Len(result) = 1
        /\ result[1] \in get_available_moves(board_before)
        /\ board[result[1]] = EMPTY

\* C9: a RecursionError of the search leaves no trace: compute_system_move
\* still returns a cell that was empty, chosen by the EASY fallback, on a
\* board that is as it was before the call (so the turn adds one symbol);
\* provide_hint reports 'hint unavailable' on a board that is as it was.
C9_FailedSearchLeavesNoTrace ==
    /\ call = "compute_system_move/fallback" =>
          /\ raised = NoException
          /\ Len(result) = 1
          /\ result[1] \in get_available_moves(board_before)
          /\ board = board_before
    /\ (call = "provide_hint" /\ hint.message = HINT_UNAVAILABLE) =>
          board = board_before

-----------------------------------------------------------------------------
(* Claims about quitting and errors, checked under Spec *)

\* The human's turn reads a quit word, or input() is interrupted.
C11_Quit ==
    pc = "round" /\ current_player = "human" /\ Classify(last_input', board) = "quit"

C11_QuitStep ==
    C11_Quit =>
        /\ pc' = "exited"
        /\ raised' = "QuitGame"
        /\ outcome' = "none"
        /\ stats' = stats
        /\ rounds' = rounds

\* The quit ends the session, by main returning or by a KeyboardInterrupt
\* that is raised on the way out and leaves main.
C11_QuitOrInterruptStep ==
    C11_Quit =>
        /\ pc' \in {"exited", "aborted"}
        /\ raised' \in {"QuitGame", "KeyboardInterrupt"}
        /\ pc' = "aborted" => raised' = "KeyboardInterrupt"
        /\ outcome' = "none"
        /\ stats' = stats
        /\ rounds' = rounds

Errors == {"AttributeError", "ValueError", "IndexError"}

\* A step of the round in which an exception other than QuitGame leaves
\* play_round.
C12_ErrorStep ==
    (pc = "round" /\ raised' \in Errors) =>
        /\ pc' = "configure"
        /\ outcome' = "none"
        /\ stats' = stats
        /\ rounds' = rounds
        /\ saved' = saved

\* The session has ended by a quit, by 'n' at the play-again prompt or by
\* an interrupt at the top level.
C12_EndedByQuitOrNo ==
    pc \in {"exited", "aborted"} =>
        \/ raised = "QuitGame"
        \/ raised = NoException /\ last_input = "n" /\ outcome \in Outcomes
        \/ raised = "KeyboardInterrupt"

\* C12: an error other than the quit signal raised in a round is caught at
\* the session loop: no counter changes, no outcome is recorded, and the
\* loop goes on with the next configuration prompt; the session ends only
\* by a quit, by 'n' at the play-again prompt or by a top-level interrupt.
C12_ErrorsAreAbsorbed == [][C12_ErrorStep]_vars /\ []C12_EndedByQuitOrNo

-----------------------------------------------------------------------------
(* Claims about the hint, checked under UnitSpec *)

\* provide_hint was called and its scoring pass did not fail.
Hinted == call = "provide_hint" /\ hint.message # HINT_UNAVAILABLE

\* C13: a hint query whose search does not fail reports, at any difficulty,
\* exactly the empty cells whose score equals the maximum score of the
\* scoring pass, in ascending order, and classifies the position by that
\* maximum (> 0 winning, = 0 drawing, < 0 losing); on a board with no empty
\* cell it reports that no hint is available.
C13_HintReportsBestMoves ==
    Hinted =>
        IF get_available_moves(board_before) = {}
        THEN hint = [message |-> HINT_NO_MOVES, moves |-> <<>>]
        ELSE LET best == Max({scored[m] : m \in DOMAIN scored})
             IN  /\ DOMAIN scored = get_available_moves(board_before)
                 /\ {hint.moves[i] : i \in DOMAIN hint.moves}
                        = {m \in DOMAIN scored : scored[m] = best}
                 /\ \A i, j \in DOMAIN hint.moves : i < j => hint.moves[i] < hint.moves[j]
                 /\ hint.message = (IF best > 0 THEN HINT_WIN
                                    ELSE IF best = 0 THEN HINT_DRAW
                                    ELSE HINT_LOSE)

\* A hint that lists two or more best moves out of more candidates.
C13_Witness ==
    /\ Hinted
    /\ Len(hint.moves) >= 2
    /\ Len(hint.moves) < Cardinality(DOMAIN scored)
    /\ hint.message = HINT_DRAW

\* C14: the hint is true of the human's own moves: under 'set you up to
\* win or force a win' the human placing the human symbol on any listed
\* cell wins at once or forces a win (the position is worth less than 0 to
\* the system); under 'should secure at least a draw' the human playing a
\* listed cell does not lose against any system reply (worth at most 0).
C14_HintIsTrueOfHumanMoves ==
    /\ (Hinted /\ hint.message = HINT_WIN) =>
          \A i \in DOMAIN hint.moves : HumanMoveValue(board_before, hint.moves[i]) < 0
    /\ (Hinted /\ hint.message = HINT_DRAW) =>
          \A i \in DOMAIN hint.moves : HumanMoveValue(board_before, hint.moves[i]) <= 0

-----------------------------------------------------------------------------
(* Claims about the stats file, checked under StatsSpec *)

\* The counters load_stats is to return for a well-formed field: 0 when the
\* key is missing, else the integer the value stands for.
FieldValue(v) == IF v.t = "absent" THEN 0 ELSE v.n

WellFormed(file) ==
    /\ file.kind = "object"
    /\ \A key \in DOMAIN file.fields :
          file.fields[key].t \in {"absent", "int", "float", "bool", "numeral"}

\* C15: load_stats never raises: whatever the state of the stats file
\* (missing, unreadable, not JSON, JSON that is not an object, an object
\* with missing or non-integer fields) it returns stats, with 0 for each
\* missing field and all-zero counters when the file is malformed.
C15_LoadStatsNeverRaises ==
    call = "load_stats" =>
        /\ raised = NoException
        /\ result # NoResult
        /\ result[1] = (IF WellFormed(saved)
                        THEN GameStats(FieldValue(saved.fields.wins),
                                       FieldValue(saved.fields.losses),
                                       FieldValue(saved.fields.ties))
                        ELSE GameStats(0, 0, 0))

C16_MissingFile ==
    (call = "load_stats" /\ saved.kind = "missing") =>
        (raised = NoException /\ result = <<GameStats(0, 0, 0)>>)

\* C16, as claimed: save_stats followed by load_stats on the same path
\* returns stats with the counters that were saved, whatever the file held
\* before; and load_stats on a missing file returns all-zero counters
\* without raising.
C16_RoundTripOnEveryPath ==
    /\ call = "save_stats;load_stats" => (raised = NoException /\ result = <<stats>>)
    /\ C16_MissingFile

\* C16, amended: save_stats whose write succeeds, followed by load_stats on
\* the same path when the file can be read, returns stats with the counters
\* that were saved, whatever the file held before; and load_stats on a
\* missing file returns all-zero counters without raising.
C16_RoundTrip ==
    /\ (call = "save_stats;load_stats" /\ ~save_failed /\ saved.kind # "unreadable") =>
          (raised = NoException /\ result = <<stats>>)
    /\ C16_MissingFile

\* Counters that differ from each other were saved and read back.
C16_Witness ==
    /\ call = "save_stats;load_stats"
    /\ ~save_failed
    /\ stats.wins # stats.losses
    /\ result = <<stats>>
    /\ saved = json_dumps(stats)

-----------------------------------------------------------------------------
(* Claims about the scoring pass, checked under SearchSpec *)

\* _score_moves was called and returned.
Scored == call = "_score_moves" /\ raised = NoException

\* C17: for every board of play and every empty cell m, the score the
\* memoized pass records for m is the value of the plain minimax (system
\* won -> 10 - depth, human won -> depth - 10, full -> 0, else max on the
\* system's move and min on the human's) after the system symbol is placed
\* at m, the human to move at depth 1: the cache changes no result.
C17_MemoizedEqualsPlainMinimax ==
    Scored =>
        \A m \in get_available_moves(board_before) :
            /\ m \in DOMAIN scored
            /\ scored[m] = minimax([board_before EXCEPT ![m] = system_symbol],
                                   human_symbol, 1, system_symbol, human_symbol)

\* A pass on a board of play in which the cache answered calls.
C17_Witness ==
    /\ Scored
    /\ cache_hits > 0
    /\ Cardinality(DOMAIN scored) = MaxSearchEmptyCells

\* C18: a scoring pass that returns leaves the board as it was before the
\* call, and the mapping it returns has exactly the cells that are empty
\* as its keys; on a full board it is the empty mapping.
C18_PassRestoresBoard ==
    Scored =>
        /\ board = board_before
        /\ DOMAIN scored = get_available_moves(board_before)
        /\ is_board_full(board_before) => scored = NoScores

\* A pass over several candidates has returned.
C18_Witness ==
    /\ Scored
    /\ Cardinality(DOMAIN scored) >= 2
    /\ board = board_before

-----------------------------------------------------------------------------
(* Claims about the board of a round, checked under Spec *)

\* The cells a step writes.
Written == {c \in Cells : board'[c] # board[c]}

\* The step is a turn of the round: the system's turn, or a line of the
\* human that is accepted as a move; no KeyboardInterrupt cuts it short.
TurnStep ==
    /\ pc = "round"
    /\ raised' # "KeyboardInterrupt"
    /\ \/ current_player = "system"
       \/ current_player = "human" /\ Classify(last_input', board) = "move"

C19_Step ==
    /\ (pc = "configure" /\ pc' = "round") =>
          /\ board' = EmptyBoard
          /\ current_player' = (IF human_starts' THEN "human" ELSE "system")
    /\ (pc = "round") => \A c \in Cells : board[c] # EMPTY => board'[c] = board[c]
    /\ TurnStep => \E c \in Cells : Written = {c} /\ board[c] = EMPTY

\* C19: within a round every turn writes exactly one cell, which was EMPTY,
\* and a cell that holds a symbol does not change until the next round
\* resets the board; a round starts on the all-EMPTY board and the first
\* mover is the human iff human_starts.
C19_TurnsWriteOneCell == [][C19_Step]_vars

HasLine(b) == check_winner(b, human_symbol) \/ check_winner(b, system_symbol)

\* C20: on every board of a round at most one of the two symbols has a
\* winning line, and no move is made once either symbol has one.
C20_NoMoveAfterLine ==
    /\ [](pc = "round" => ~(check_winner(board, human_symbol)
                              /\ check_winner(board, system_symbol)))
    /\ [][(pc = "round" /\ HasLine(board)) => human_plies' = human_plies]_vars

-----------------------------------------------------------------------------
(* Claims about the immediate win, checked under UnitSpec *)

\* The empty cells of the board the method was called on that complete a
\* winning line of the system.
WinningCells ==
    {m \in get_available_moves(board_before) :
        check_winner([board_before EXCEPT ![m] = system_symbol], system_symbol)}

\* The system was to move and the scoring pass of its tier returned.
SystemScored ==
    /\ call \in {"tier", "compute_system_move"}
    /\ system_difficulty \in {MEDIUM, DIFFICULT}
    /\ raised = NoException

\* C21: when the system is to move and some empty cell completes a system
\* winning line, the scoring pass gives exactly those cells the score 9 and
\* every other cell a strictly lower score, and DIFFICULT selection returns
\* one of those cells.
C21_ImmediateWinScoresNine ==
    (SystemScored /\ WinningCells # {}) =>
        /\ DOMAIN scored = get_available_moves(board_before)
        /\ \A m \in DOMAIN scored :
              IF m \in WinningCells THEN scored[m] = 9 ELSE scored[m] < 9
        /\ system_difficulty = DIFFICULT => (result # NoResult /\ result[1] \in WinningCells)

\* DIFFICULT returned an immediately winning cell on a board that also has
\* cells that do not win at once.
C21_Witness ==
    /\ SystemScored
    /\ system_difficulty = DIFFICULT
    /\ WinningCells # {}
    /\ WinningCells # get_available_moves(board_before)
    /\ result # NoResult
    /\ result[1] \in WinningCells
    /\ scored[result[1]] = 9

====
